---- MODULE Spec2Model ----
(***************************************************************************)
(* The Connect-4 environment of alyosha-swamy/connect4, in its two         *)
(* variants: src/stage1/env.py (tracks _winner, convolves the raw board)   *)
(* and src/pytorch/env.py (no _winner, convolves board == actor).          *)
(* Row 0 is the bottom row; board[r][c] is in {EMPTY, PLAYER1, PLAYER2}.   *)
(***************************************************************************)
EXTENDS Integers, Sequences, FiniteSets, TLC

VARIABLES
  variant,    \* which Env: "stage1" (src/stage1/env.py) or "pytorch" (src/pytorch/env.py)
  dims,       \* the shape <<rows, cols>> the Env was constructed with
  board,      \* self.state.board
  moves,      \* self._moves
  game_over,  \* self._game_over
  winner,     \* self._winner (stage1 only; NoWinner is None)
  op,         \* history: the last call, its arguments and what it returned
  pre,        \* history: the Env's fields before the last step
  allLegal,   \* history: every step since construction/reset hit a legal column
  allLive,    \* history: every step since construction/reset found game_over false
  calls,      \* history: calls counted by the bounded specification
  ret         \* what the last query (observe, is_winner) returned; NoValue before it

vars == <<variant, dims, board, moves, game_over, winner, op, pre, allLegal, allLive, calls,
          ret>>

(* ---------------- bounds ---------------- *)

\* longest move history explored on the boards of DimsSet
MaxMoves == 4

\* longest move history explored on the 6x7 board of Dims67
MaxMoves67 == 4

\* board shapes <<rows, cols>> an Env is constructed with for free play
DimsSet == {<<5, 4>>}

Dims67 == <<6, 7>>

MoveCap(d) == IF d = Dims67 THEN MaxMoves67 ELSE MaxMoves

\* calls made from each mid-game position of SpecBoards
MaxCalls == 2

(* ---------------- program constants ---------------- *)

EMPTY == 0

PLAYER1 == 1

PLAYER2 == 2

\* the value of self._winner when it is None
NoWinner == 0

Players == {PLAYER1, PLAYER2}

Variants == {"stage1", "pytorch"}

opponent(actor) == IF actor = PLAYER1 THEN PLAYER2 ELSE PLAYER1

(* ---------------- matrices and convolve2d ---------------- *)

\* a matrix: its shape and its cells a[row][col]
Mat(r, c, a) == [r |-> r, c |-> c, a |-> a]

\* the cells of an r x c matrix a that are not 0, among its first n in row-major order
RECURSIVE NonZero(_, _, _, _)
NonZero(r, c, a, n) ==
  IF n = 0 THEN <<>>
  ELSE LET rest == NonZero(r, c, a, n - 1)
           p    == <<(n - 1) \div c, (n - 1) % c>>
       IN  IF a[p[1]][p[2]] = 0 THEN rest ELSE Append(rest, p)

\* a kernel: a matrix together with the list nz of its nonzero cells (the only
\* cells that contribute to a convolution sum)
Kernel(r, c, a) == [r |-> r, c |-> c, a |-> a, nz |-> NonZero(r, c, a, r * c)]

\* cell [i][j] of the 'valid' convolution of a matrix with a kernel no larger
\* than it: sum over the kernel's cells (p, q) of
\* big[i + kr-1-p][j + kc-1-q] * kernel[p][q], over the first n nonzero cells
RECURSIVE ConvSum(_, _, _, _, _)
ConvSum(big, small, i, j, n) ==
  IF n = 0 THEN 0
  ELSE big.a[i + small.r - 1 - small.nz[n][1]][j + small.c - 1 - small.nz[n][2]]
         * small.a[small.nz[n][1]][small.nz[n][2]]
       + ConvSum(big, small, i, j, n - 1)

\* the same cell when the inputs were swapped (the matrix is no larger than
\* the kernel): sum over the first n cells (p, q) of the matrix, row-major, of
\* kernel[i + r-1-p][j + c-1-q] * matrix[p][q]
RECURSIVE ConvSumSwapped(_, _, _, _, _)
ConvSumSwapped(big, small, i, j, n) ==
  IF n = 0 THEN 0
  ELSE big.a[i + small.r - 1 - ((n - 1) \div small.c)]
            [j + small.c - 1 - ((n - 1) % small.c)]
         * small.a[(n - 1) \div small.c][(n - 1) % small.c]
       + ConvSumSwapped(big, small, i, j, n - 1)

\* convolve2d(in1, in2, mode='valid'): the inputs are swapped when in1 is not
\* at least as large as in2 in every dimension; the result has shape
\* (big.r - small.r + 1, big.c - small.c + 1)
SwapNeeded(in1, in2) == ~(in1.r >= in2.r /\ in1.c >= in2.c)

convolve2d_rows(in1, in2) ==
  IF SwapNeeded(in1, in2) THEN in2.r - in1.r + 1 ELSE in1.r - in2.r + 1

convolve2d_cols(in1, in2) ==
  IF SwapNeeded(in1, in2) THEN in2.c - in1.c + 1 ELSE in1.c - in2.c + 1

\* the cell [i][j] of convolve2d(in1, in2, mode='valid'), in2 a kernel
convolve2d(in1, in2, i, j) ==
  IF SwapNeeded(in1, in2)
  THEN ConvSumSwapped(in2, in1, i, j, in1.r * in1.c)
  ELSE ConvSum(in1, in2, i, j, Len(in2.nz))

horizontal_kernel == Kernel(1, 4, [i \in 0..0 |-> [j \in 0..3 |-> 1]])

vertical_kernel == Kernel(4, 1, [i \in 0..3 |-> [j \in 0..0 |-> 1]])

diag1_kernel == Kernel(4, 4, [i \in 0..3 |-> [j \in 0..3 |-> IF i = j THEN 1 ELSE 0]])

diag2_kernel == Kernel(4, 4, [i \in 0..3 |-> [j \in 0..3 |-> diag1_kernel.a[i][3 - j]]])

detection_kernels == {horizontal_kernel, vertical_kernel, diag1_kernel, diag2_kernel}

\* np.any(convolve2d(in1, in2, mode='valid') >= 4)
AnyGE4(in1, in2) ==
  \E i \in 0..(convolve2d_rows(in1, in2) - 1) :
    \E j \in 0..(convolve2d_cols(in1, in2) - 1) : convolve2d(in1, in2, i, j) >= 4

\* (convolve2d(in1, in2, mode='valid') == 4).any()
AnyEQ4(in1, in2) ==
  \E i \in 0..(convolve2d_rows(in1, in2) - 1) :
    \E j \in 0..(convolve2d_cols(in1, in2) - 1) : convolve2d(in1, in2, i, j) = 4

(* ---------------- boards ---------------- *)

Rows(d) == d[1]

Cols(d) == d[2]

initial_state(d) == [r \in 0..(Rows(d) - 1) |-> [c \in 0..(Cols(d) - 1) |-> EMPTY]]

\* board[row, col] = v
SetCell(d, b, row, col, v) ==
  [r \in 0..(Rows(d) - 1) |-> [c \in 0..(Cols(d) - 1) |->
     IF r = row /\ c = col THEN v ELSE b[r][c]]]

BoardMat(d, b) == Mat(Rows(d), Cols(d), b)

\* board == actor, as the 0/1 matrix numpy convolves
EqMat(d, b, actor) ==
  Mat(Rows(d), Cols(d),
      [r \in 0..(Rows(d) - 1) |-> [c \in 0..(Cols(d) - 1) |->
         IF b[r][c] = actor THEN 1 ELSE 0]])

\* np.all(board != 0), and pytorch's drawn(): 0 not in state.board
BoardFull(d, b) == \A r \in 0..(Rows(d) - 1) : \A c \in 0..(Cols(d) - 1) : b[r][c] # EMPTY

drawn(d, b) == BoardFull(d, b)

\* An ndarray in a call: o is the array being built, s the array the masks
\* read, fresh whether o is an object of its own (a write into o also lands in s
\* when it is not).
\* s.copy()
ndarray_copy(s) == [o |-> s, s |-> s, fresh |-> TRUE]

\* o = s, no copy
ndarray_alias(s) == [o |-> s, s |-> s, fresh |-> FALSE]

\* o[s == x] = v for kind "eq", o[s != x] = v for kind "ne"
MaskedAssign(d, a, kind, x, v) ==
  LET o2 == [r \in 0..(Rows(d) - 1) |-> [c \in 0..(Cols(d) - 1) |->
               IF (kind = "eq" /\ a.s[r][c] = x) \/ (kind = "ne" /\ a.s[r][c] # x)
               THEN v ELSE a.o[r][c]]]
  IN  [o |-> o2, s |-> IF a.fresh THEN a.s ELSE o2, fresh |-> a.fresh]

\* state_to_observation writing o[s == 0] = 0 before o[s != actor] = 2
state_to_observation_reordered(d, s, actor) ==
  MaskedAssign(d,
    MaskedAssign(d,
      MaskedAssign(d, ndarray_copy(s), "eq", actor, 1),
      "eq", EMPTY, 0),
    "ne", actor, 2)

\* state_to_observation starting from o = s instead of o = s.copy()
state_to_observation_nocopy(d, s, actor) ==
  MaskedAssign(d,
    MaskedAssign(d,
      MaskedAssign(d, ndarray_alias(s), "eq", actor, 1),
      "ne", actor, 2),
    "eq", EMPTY, 0)

\* o = s.copy(); o[s == actor] = 1; o[s != actor] = 2; o[s == 0] = 0; return o
state_to_observation(d, s, actor) ==
  MaskedAssign(d,
    MaskedAssign(d,
      MaskedAssign(d, ndarray_copy(s), "eq", actor, 1),
      "ne", actor, 2),
    "eq", EMPTY, 0)

\* legal_mask reading row 0, the bottom row, instead of the top row
legal_mask_bottom(d, b) == [c \in 0..(Cols(d) - 1) |-> b[0][c] = EMPTY]

legal_mask(d, b) == [c \in 0..(Cols(d) - 1) |-> b[Rows(d) - 1][c] = EMPTY]

\* [Action(i) for i in range(n) if self.legal_mask()[i]], n counting up to cols
RECURSIVE legal_actions_upto(_, _, _)
legal_actions_upto(d, b, n) ==
  IF n = 0 THEN <<>>
  ELSE IF legal_mask(d, b)[n - 1]
       THEN Append(legal_actions_upto(d, b, n - 1), n - 1)
       ELSE legal_actions_upto(d, b, n - 1)

legal_actions(d, b) == legal_actions_upto(d, b, Cols(d))

\* np.argmax(board[:, col] == 0): the first empty row, or 0 when there is none
argmax_empty(d, b, col) ==
  IF \E r \in 0..(Rows(d) - 1) : b[r][col] = EMPTY
  THEN CHOOSE r \in 0..(Rows(d) - 1) :
         b[r][col] = EMPTY /\ \A q \in 0..(r - 1) : b[q][col] # EMPTY
  ELSE 0

\* board.shape
shape(b) == <<Cardinality(DOMAIN b), Cardinality(DOMAIN b[0])>>

\* reset that forgets self._moves = []
env_reset_keepmoves(b, m, g, w) ==
  [board |-> initial_state(shape(b)), moves |-> m, game_over |-> FALSE,
   winner |-> NoWinner]

\* reset: flags and history cleared, a zero board of the shape of the old one
env_reset(b, m, g, w) ==
  [board |-> initial_state(shape(b)), moves |-> <<>>, game_over |-> FALSE,
   winner |-> NoWinner]

(* ---------------- stage1 Env ---------------- *)

\* np.any(convolve2d(in1, in2, mode='valid') > 4)
AnyGT4(in1, in2) ==
  \E i \in 0..(convolve2d_rows(in1, in2) - 1) :
    \E j \in 0..(convolve2d_cols(in1, in2) - 1) : convolve2d(in1, in2, i, j) > 4

\* is_game_over with every ">= 4" written "> 4"
is_game_over_gt4(d, b) ==
  \/ AnyGT4(BoardMat(d, b), horizontal_kernel)
  \/ AnyGT4(BoardMat(d, b), vertical_kernel)
  \/ AnyGT4(BoardMat(d, b), diag1_kernel)
  \/ AnyGT4(BoardMat(d, b), diag2_kernel)
  \/ BoardFull(d, b)

is_game_over(d, b) ==
  \/ AnyGE4(BoardMat(d, b), horizontal_kernel)
  \/ AnyGE4(BoardMat(d, b), vertical_kernel)
  \/ AnyGE4(BoardMat(d, b), diag1_kernel)
  \/ AnyGE4(BoardMat(d, b), diag2_kernel)
  \/ BoardFull(d, b)

stage1_reward(over, win, actor) ==
  IF over /\ win = actor THEN 1
  ELSE IF over /\ win # actor THEN -1
  ELSE 0

stage1_step(d, b, m, g, w, col, actor) ==
  LET row  == argmax_empty(d, b, col)
      b1   == SetCell(d, b, row, col, actor)
      over == is_game_over(d, b1)
      g1   == g \/ over
      w1   == IF over THEN actor ELSE w
  IN  [board |-> b1, moves |-> Append(m, <<row, col>>), game_over |-> g1,
       winner |-> w1, reward |-> stage1_reward(g1, w1, actor)]

\* undo that clears the cell but reads the last move without popping it
stage1_undo_nopop(d, b, m, g, w) ==
  IF Len(m) = 0
  THEN [board |-> b, moves |-> m, game_over |-> g, winner |-> w, raised |-> FALSE]
  ELSE LET rc == m[Len(m)]
       IN  [board |-> SetCell(d, b, rc[1], rc[2], EMPTY),
            moves |-> m,
            game_over |-> FALSE, winner |-> NoWinner, raised |-> FALSE]

\* undo that forgets to reset self._winner
stage1_undo_keepwinner(d, b, m, g, w) ==
  IF Len(m) = 0
  THEN [board |-> b, moves |-> m, game_over |-> g, winner |-> w, raised |-> FALSE]
  ELSE LET rc == m[Len(m)]
       IN  [board |-> SetCell(d, b, rc[1], rc[2], EMPTY),
            moves |-> SubSeq(m, 1, Len(m) - 1),
            game_over |-> FALSE, winner |-> w, raised |-> FALSE]

\* undo that pops the first move of the history, self._moves.pop(0)
stage1_undo_popfirst(d, b, m, g, w) ==
  IF Len(m) = 0
  THEN [board |-> b, moves |-> m, game_over |-> g, winner |-> w, raised |-> FALSE]
  ELSE LET rc == m[1]
       IN  [board |-> SetCell(d, b, rc[1], rc[2], EMPTY),
            moves |-> Tail(m),
            game_over |-> FALSE, winner |-> NoWinner, raised |-> FALSE]

stage1_undo(d, b, m, g, w) ==
  IF Len(m) = 0
  THEN [board |-> b, moves |-> m, game_over |-> g, winner |-> w, raised |-> FALSE]
  ELSE LET rc == m[Len(m)]
       IN  [board |-> SetCell(d, b, rc[1], rc[2], EMPTY),
            moves |-> SubSeq(m, 1, Len(m) - 1),
            game_over |-> FALSE, winner |-> NoWinner, raised |-> FALSE]

(* ---------------- pytorch Env ---------------- *)

\* is_winner convolving the board itself instead of board == actor
is_winner_raw(d, b, actor) ==
  \E kernel \in detection_kernels : AnyEQ4(BoardMat(d, b), kernel)

\* is_winner that leaves horizontal_kernel out of the kernels it tries
is_winner_nohorizontal(d, b, actor) ==
  \E kernel \in detection_kernels \ {horizontal_kernel} :
    AnyEQ4(EqMat(d, b, actor), kernel)

is_winner(d, b, actor) ==
  \E kernel \in detection_kernels : AnyEQ4(EqMat(d, b, actor), kernel)

\* state_to_reward with the two signs exchanged
state_to_reward_swapped(d, b, actor) ==
  IF is_winner(d, b, actor) THEN -1
  ELSE IF is_winner(d, b, opponent(actor)) THEN 1
  ELSE 0

state_to_reward(d, b, actor) ==
  IF is_winner(d, b, actor) THEN 1
  ELSE IF is_winner(d, b, opponent(actor)) THEN -1
  ELSE 0

\* step that appends (a, i), column first, to the move history
pytorch_step_colrow(d, b, m, g, w, col, actor) ==
  LET hasRow == \E r \in 0..(Rows(d) - 1) : b[r][col] = EMPTY
      i      == argmax_empty(d, b, col)
      b1     == IF hasRow THEN SetCell(d, b, i, col, actor) ELSE b
      m1     == IF hasRow THEN Append(m, <<col, i>>) ELSE m
      r      == state_to_reward(d, b1, actor)
  IN  [board |-> b1, moves |-> m1,
       game_over |-> (g \/ r # 0 \/ drawn(d, b1)),
       winner |-> w, reward |-> r]

pytorch_step(d, b, m, g, w, col, actor) ==
  LET hasRow == \E r \in 0..(Rows(d) - 1) : b[r][col] = EMPTY
      i      == argmax_empty(d, b, col)
      b1     == IF hasRow THEN SetCell(d, b, i, col, actor) ELSE b
      m1     == IF hasRow THEN Append(m, <<i, col>>) ELSE m
      r      == state_to_reward(d, b1, actor)
  IN  [board |-> b1, moves |-> m1,
       game_over |-> (g \/ r # 0 \/ drawn(d, b1)),
       winner |-> w, reward |-> r]

\* undo without the check for an empty history: list.pop() raises IndexError
pytorch_undo_unguarded(d, b, m, g, w) ==
  IF Len(m) = 0
  THEN [board |-> b, moves |-> m, game_over |-> g, winner |-> w, raised |-> TRUE]
  ELSE LET rc == m[Len(m)]
       IN  [board |-> SetCell(d, b, rc[1], rc[2], EMPTY),
            moves |-> SubSeq(m, 1, Len(m) - 1),
            game_over |-> g, winner |-> w, raised |-> FALSE]

pytorch_undo(d, b, m, g, w) ==
  IF Len(m) = 0
  THEN [board |-> b, moves |-> m, game_over |-> g, winner |-> w, raised |-> FALSE]
  ELSE LET rc == m[Len(m)]
       IN  [board |-> SetCell(d, b, rc[1], rc[2], EMPTY),
            moves |-> SubSeq(m, 1, Len(m) - 1),
            game_over |-> g, winner |-> w, raised |-> FALSE]

(* ---------------- the state machine ---------------- *)

env_step(v, d, b, m, g, w, col, actor) ==
  IF v = "stage1" THEN stage1_step(d, b, m, g, w, col, actor)
  ELSE pytorch_step(d, b, m, g, w, col, actor)

env_undo(v, d, b, m, g, w) ==
  IF v = "stage1" THEN stage1_undo(d, b, m, g, w) ELSE pytorch_undo(d, b, m, g, w)

Snapshot(b, m, g, w) == [board |-> b, moves |-> m, game_over |-> g, winner |-> w]

\* name: the call; col, actor: a step's arguments; reward: what a step returned
\* (0 for any other call);
\* raised: the call raised an exception (no call of either Env does, for a column
\* inside the grid); legal, live: the step's column was legal / game_over was
\* false when it was made. For an undo, after/legal/live describe the call
\* before it; for a reset, after is the call before it and live tells whether
\* game_over was false when reset was called.
OpRec(name, col, actor, legal, live, reward, after) ==
  [name |-> name, col |-> col, actor |-> actor, legal |-> legal, live |-> live,
   reward |-> reward, raised |-> FALSE, after |-> after]

\* ret before any query
NoValue == <<>>

Fresh(v, d) ==
  /\ variant = v
  /\ dims = d
  /\ board = initial_state(d)
  /\ moves = <<>>
  /\ game_over = FALSE
  /\ winner = NoWinner
  /\ op = OpRec("init", 0, 0, TRUE, TRUE, 0, "-")
  /\ pre = Snapshot(initial_state(d), <<>>, FALSE, NoWinner)
  /\ allLegal = TRUE
  /\ allLive = TRUE
  /\ calls = 0
  /\ ret = NoValue

Init == \E v \in Variants : \E d \in DimsSet : Fresh(v, d)

Init67 == Fresh("stage1", Dims67)

Step(col, actor) ==
  \E s \in {env_step(variant, dims, board, moves, game_over, winner, col, actor)} :
  LET legal == legal_mask(dims, board)[col]
  IN  /\ board' = s.board
      /\ moves' = s.moves
      /\ game_over' = s.game_over
      /\ winner' = s.winner
      /\ op' = OpRec("step", col, actor, legal, ~game_over, s.reward, "-")
      /\ pre' = Snapshot(board, moves, game_over, winner)
      /\ allLegal' = (allLegal /\ legal)
      /\ allLive' = (allLive /\ ~game_over)
      /\ UNCHANGED <<variant, dims>>

StepAny == \E col \in 0..(Cols(dims) - 1) : \E actor \in Players : Step(col, actor)

Undo ==
  \E s \in {env_undo(variant, dims, board, moves, game_over, winner)} :
      /\ board' = s.board
      /\ moves' = s.moves
      /\ game_over' = s.game_over
      /\ winner' = s.winner
      /\ op' = [OpRec("undo", 0, 0, op.legal, op.live, 0, op.name)
                  EXCEPT !.raised = s.raised]
      /\ pre' = IF op.name = "step" THEN pre
                ELSE Snapshot(s.board, s.moves, s.game_over, s.winner)
      /\ UNCHANGED <<variant, dims, allLegal, allLive>>

Reset ==
  \E s \in {env_reset(board, moves, game_over, winner)} :
  /\ board' = s.board
  /\ moves' = s.moves
  /\ game_over' = s.game_over
  /\ winner' = s.winner
  /\ op' = OpRec("reset", 0, 0, TRUE, ~game_over, 0, op.name)
  /\ pre' = Snapshot(s.board, s.moves, s.game_over, s.winner)
  /\ allLegal' = TRUE
  /\ allLive' = TRUE
  /\ UNCHANGED <<variant, dims>>

\* free play from a fresh Env, the move history capped
PlayStep == Len(moves) < MoveCap(dims) /\ StepAny /\ UNCHANGED <<calls, ret>>

PlayUndo == Undo /\ UNCHANGED <<calls, ret>>

PlayReset == Reset /\ UNCHANGED <<calls, ret>>

Next == PlayStep \/ PlayUndo \/ PlayReset

Spec == Init /\ [][Next]_vars

Spec67 == Init67 /\ [][Next]_vars

(* ---------------- mid-game positions ---------------- *)

\* the calls <<col, actor>> that fill the columns listed in cs, in that order,
\* with every choice of actors
ColorSeqs(cs) ==
  {[k \in 1..Len(cs) |-> <<cs[k], f[k]>>] : f \in [1..Len(cs) -> Players]}

\* 15 steps that leave the 4x4 board one cell short of full, with no 4 equal
\* cells in a line whichever actor fills the last cell, (3, 3)
DrawSeq ==
  [k \in 1..15 |->
     LET c == (k - 1) \div 4
         r == (k - 1) % 4
     IN  <<c, IF (c % 2 = 0) = (r < 2) THEN PLAYER1 ELSE PLAYER2>>]

\* the staircase under the falling diagonal: the three cells of the diagonal
\* with every choice of actors, the cells below them in two colours
MirrorSeqs ==
  {s \in ColorSeqs(<<3, 2, 2, 1, 1, 1, 0, 0, 0>>) :
     /\ s[2][2] = s[5][2] /\ s[5][2] = s[8][2]
     /\ s[4][2] = s[7][2] /\ s[7][2] = s[9][2]}

\* step sequences on a 4x4 board: none, the two staircases under a diagonal, a
\* bottom row of three, a full column, and a board one cell short of a draw
BoardSeqs ==
  {<<>>}
    \cup ColorSeqs(<<0, 1, 1, 2, 2, 2, 3, 3, 3>>)
    \cup MirrorSeqs
    \cup ColorSeqs(<<0, 1, 2>>)
    \cup ColorSeqs(<<0, 0, 0, 0>>)
    \cup {DrawSeq}

BoardDims == <<4, 4>>

\* the Env after the first n steps of seq from a fresh Env, with the history
\* flags of those steps
RECURSIVE Replay(_, _, _, _)
Replay(v, d, seq, n) ==
  IF n = 0
  THEN [board |-> initial_state(d), moves |-> <<>>, game_over |-> FALSE,
        winner |-> NoWinner, legal |-> TRUE, live |-> TRUE]
  ELSE LET p == Replay(v, d, seq, n - 1)
           s == env_step(v, d, p.board, p.moves, p.game_over, p.winner,
                         seq[n][1], seq[n][2])
       IN  [board |-> s.board, moves |-> s.moves, game_over |-> s.game_over,
            winner |-> s.winner,
            legal |-> (p.legal /\ legal_mask(d, p.board)[seq[n][1]]),
            live |-> (p.live /\ ~p.game_over)]

FirstLegal(d, b) ==
  CHOOSE c \in 0..(Cols(d) - 1) :
    legal_mask(d, b)[c] /\ \A q \in 0..(c - 1) : ~legal_mask(d, b)[q]

\* the Env after the steps of seq, one more step (PLAYER1 into the first legal
\* column) and an undo of it
Position(v, seq) ==
  \E p \in {Replay(v, BoardDims, seq, Len(seq))} :
  \E s \in {env_step(v, BoardDims, p.board, p.moves, p.game_over, p.winner,
                     FirstLegal(BoardDims, p.board), PLAYER1)} :
  \E u \in {env_undo(v, BoardDims, s.board, s.moves, s.game_over, s.winner)} :
    /\ variant = v
    /\ dims = BoardDims
    /\ board = u.board
    /\ moves = u.moves
    /\ game_over = u.game_over
    /\ winner = u.winner
    /\ op = OpRec("undo", 0, 0, TRUE, ~p.game_over, 0, "step")
    /\ pre = Snapshot(p.board, p.moves, p.game_over, p.winner)
    /\ allLegal = p.legal
    /\ allLive = (p.live /\ ~p.game_over)
    /\ calls = 0
    /\ ret = NoValue

InitBoards == \E v \in Variants : \E seq \in BoardSeqs : Position(v, seq)

CountedStep == calls < MaxCalls /\ StepAny /\ calls' = calls + 1 /\ UNCHANGED ret

CountedUndo == calls < MaxCalls /\ Undo /\ calls' = calls + 1 /\ UNCHANGED ret

CountedReset == calls < MaxCalls /\ Reset /\ calls' = calls + 1 /\ UNCHANGED ret

NextBoards == CountedStep \/ CountedUndo \/ CountedReset

SpecBoards == InitBoards /\ [][NextBoards]_vars

(* ---------------- observations ---------------- *)

\* writes a caller makes into one returned observation
MaxWrites == 1

\* values a caller writes into an observation
WriteValues == {EMPTY, PLAYER1, PLAYER2}

\* positions observed: a fresh board, a bottom row of three, a full column, and
\* a board one cell short of full
ObsSeqs ==
  {<<>>} \cup ColorSeqs(<<0, 1, 2>>) \cup ColorSeqs(<<0, 0, 0, 0>>) \cup {DrawSeq}

InitObs == \E v \in Variants : \E seq \in ObsSeqs : Position(v, seq)

\* observe(actor): ret holds the returned array (grid), what it held when it was
\* returned (returned), whether it is an object apart from the Env's board
\* (fresh) and the writes made into it since
Observe(actor) ==
  \E a \in {state_to_observation(dims, board, actor)} :
      /\ ret' = [grid |-> a.o, returned |-> a.o, fresh |-> a.fresh, writes |-> 0]
      /\ board' = a.s
      /\ op' = OpRec("observe", 0, actor, op.legal, op.live, 0, op.name)
      /\ pre' = Snapshot(board, moves, game_over, winner)
      /\ UNCHANGED <<variant, dims, moves, game_over, winner, allLegal, allLive, calls>>

ObserveAny == \E actor \in Players : Observe(actor)

\* the caller writes v into cell (row, col) of the returned observation
WriteObs(row, col, v) ==
  /\ ret # NoValue
  /\ ret.writes < MaxWrites
  /\ ret' = [grid |-> SetCell(dims, ret.grid, row, col, v), returned |-> ret.returned,
             fresh |-> ret.fresh, writes |-> ret.writes + 1]
  /\ board' = IF ret.fresh THEN board ELSE SetCell(dims, board, row, col, v)
  /\ op' = OpRec("write", col, op.actor, op.legal, op.live, 0, op.name)
  /\ pre' = Snapshot(board, moves, game_over, winner)
  /\ UNCHANGED <<variant, dims, moves, game_over, winner, allLegal, allLive, calls>>

WriteObsAny ==
  \E row \in 0..(Rows(dims) - 1) : \E col \in 0..(Cols(dims) - 1) :
    \E v \in WriteValues : WriteObs(row, col, v)

NextObs == ObserveAny \/ WriteObsAny

SpecObs == InitObs /\ [][NextObs]_vars

(* ---------------- is_winner as a function of the board ---------------- *)

WinDims == <<4, 5>>

\* bands of cells: two adjacent rows, two adjacent columns, and the two windows
\* of either diagonal orientation
WinMasks ==
  {{<<r, c>> : r \in {r0, r0 + 1}, c \in 0..(Cols(WinDims) - 1)} :
      r0 \in 0..(Rows(WinDims) - 2)}
    \cup {{<<r, c>> : r \in 0..(Rows(WinDims) - 1), c \in {c0, c0 + 1}} :
            c0 \in 0..(Cols(WinDims) - 2)}
    \cup {{<<r, c>> \in (0..(Rows(WinDims) - 1)) \X (0..(Cols(WinDims) - 1)) :
              c - r \in {0, 1}},
          {<<r, c>> \in (0..(Rows(WinDims) - 1)) \X (0..(Cols(WinDims) - 1)) :
              c + r \in {3, 4}}}

\* the board that holds a in the cells of S and filler in every other cell
BoardOf(S, a, filler) ==
  [r \in 0..(Rows(WinDims) - 1) |-> [c \in 0..(Cols(WinDims) - 1) |->
     IF <<r, c>> \in S THEN a ELSE filler]]

\* a State handed to is_winner: any choice of cells of one band for one player,
\* the rest of the board empty or all the other player's
InitWin ==
  \E mask \in WinMasks : \E S \in SUBSET mask : \E a \in Players :
    \E filler \in {EMPTY, opponent(a)} :
      /\ variant = "pytorch"
      /\ dims = WinDims
      /\ board = BoardOf(S, a, filler)
      /\ moves = <<>>
      /\ game_over = FALSE
      /\ winner = NoWinner
      /\ op = OpRec("init", 0, 0, TRUE, TRUE, 0, "-")
      /\ pre = Snapshot(BoardOf(S, a, filler), <<>>, FALSE, NoWinner)
      /\ allLegal = TRUE
      /\ allLive = TRUE
      /\ calls = 0
      /\ ret = NoValue

\* is_winner(state, actor): ret holds the returned bool
IsWinnerCall(actor) ==
  /\ ret' = is_winner(dims, board, actor)
  /\ op' = OpRec("is_winner", 0, actor, TRUE, TRUE, 0, op.name)
  /\ UNCHANGED <<variant, dims, board, moves, game_over, winner, pre, allLegal,
                 allLive, calls>>

NextWin == \E actor \in Players : IsWinnerCall(actor)

SpecWin == InitWin /\ [][NextWin]_vars

(* ---------------- what the claims speak of ---------------- *)

\* the four orientations of a line: along a row, up a column, and the two diagonals
Directions == {<<0, 1>>, <<1, 0>>, <<1, 1>>, <<1, -1>>}

InGrid(d, r, c) == r >= 0 /\ r < Rows(d) /\ c >= 0 /\ c < Cols(d)

\* the 4 cells from (r, c) in direction dir lie inside the grid and all hold a
RunAt(d, b, a, r, c, dir) ==
  \A k \in 0..3 :
    /\ InGrid(d, r + k * dir[1], c + k * dir[2])
    /\ b[r + k * dir[1]][c + k * dir[2]] = a

\* the board holds 4 cells in a line that all equal a
HasRun(d, b, a) ==
  \E r \in 0..(Rows(d) - 1) : \E c \in 0..(Cols(d) - 1) : \E dir \in Directions :
    RunAt(d, b, a, r, c, dir)

\* such a line goes through the cell (row, col)
HasRunThrough(d, b, a, row, col) ==
  \E dir \in Directions : \E k \in 0..3 :
    RunAt(d, b, a, row - k * dir[1], col - k * dir[2], dir)

NonEmptyCells(d, b) ==
  {rc \in (0..(Rows(d) - 1)) \X (0..(Cols(d) - 1)) : b[rc[1]][rc[2]] # EMPTY}

Stage1 == variant = "stage1"

\* the last call was a step into a legal column, made while game_over was false
ProperStep == op.name = "step" /\ op.legal /\ op.live

\* every step since construction or reset was such a step
ProperUse == allLegal /\ allLive

LastCell == moves[Len(moves)]

Now == Snapshot(board, moves, game_over, winner)

(* ---------------- C1 ---------------- *)

\* C1 (as stated): in the stage1 Env, under proper use (legal steps made while
\* the game is not over, undo, reset), game_over is true exactly when some
\* actor has 4 in a line or the board has no empty cell.
C1_GameOverIffRunOrFull ==
  (Stage1 /\ ProperUse) =>
    (game_over <=> (HasRun(dims, board, PLAYER1) \/ HasRun(dims, board, PLAYER2)
                     \/ BoardFull(dims, board)))

(* ---------------- C2 ---------------- *)

\* C2: in the stage1 Env, a legal step made while the game is not over that
\* places a piece completing 4 in a line for its actor (any orientation) leaves
\* game_over true and winner equal to that actor, and returns reward 1.0.
C2_WinningStepEndsGame ==
  (Stage1 /\ ProperStep /\ HasRunThrough(dims, board, op.actor, LastCell[1], LastCell[2]))
    => (game_over /\ winner = op.actor /\ op.reward = 1)

\* a step that completed the rising diagonal (0,0)..(3,3) with its top cell
C2_Witness ==
  /\ Stage1 /\ ProperStep
  /\ LastCell = <<3, 3>>
  /\ RunAt(dims, board, op.actor, 0, 0, <<1, 1>>)
  /\ ~HasRun(dims, pre.board, op.actor)
  /\ game_over /\ winner = op.actor /\ op.reward = 1

(* ---------------- C3 ---------------- *)

\* C3 (as stated): on a 6x7 stage1 board, while legal steps have gone only into
\* column 0 and column 0 holds no 4 equal pieces in a row, game_over is false;
\* once column 0 holds 6 pieces legal_mask()[0] is false.
C3_Column0NeverEndsGame ==
  (/\ Stage1 /\ dims = Dims67 /\ allLegal
   /\ \A k \in 1..Len(moves) : moves[k][2] = 0
   /\ \A c \in 1..(Cols(dims) - 1) : \A r \in 0..(Rows(dims) - 1) : board[r][c] = EMPTY
   /\ ~HasRun(dims, board, PLAYER1) /\ ~HasRun(dims, board, PLAYER2))
    => (/\ ~game_over
        /\ (Len(moves) = Rows(dims) => ~legal_mask(dims, board)[0]))

(* ---------------- C4 ---------------- *)

\* C4 (as stated): in the stage1 Env, after a legal step that fills the last
\* empty cell and leaves no 4 in a line for either actor, game_over is true and
\* winner is None.
C4_DrawHasNoWinner ==
  (/\ Stage1 /\ op.name = "step" /\ op.legal
   /\ BoardFull(dims, board)
   /\ ~HasRun(dims, board, PLAYER1) /\ ~HasRun(dims, board, PLAYER2))
    => (game_over /\ winner = NoWinner)

(* ---------------- C5 ---------------- *)

\* C5 (as stated): in the stage1 Env under proper use, a winner that is not
\* None means game_over is true and that actor has 4 in a line on the board.
C5_WinnerHasRun ==
  (Stage1 /\ ProperUse /\ winner # NoWinner)
    => (game_over /\ HasRun(dims, board, winner))

(* ---------------- C6 ---------------- *)

\* C6 (as stated): in the stage1 Env a legal step made while the game is not
\* over returns 1.0 exactly when the placed piece gives its actor 4 in a line,
\* and 0.0 otherwise (draw and continuation included).
C6_RewardIffRun ==
  (Stage1 /\ ProperStep) =>
    (IF HasRunThrough(dims, board, op.actor, LastCell[1], LastCell[2])
     THEN op.reward = 1 ELSE op.reward = 0)

(* ---------------- C7 ---------------- *)

\* C7: in both Envs, under proper use, a legal step made while the game is not
\* over never returns -1.0: its reward is 0.0 or 1.0.
C7_RewardNeverNegative ==
  (ProperUse /\ ProperStep) => op.reward \in {0, 1}

\* the pytorch Env just returned 1.0, under proper use, for the step that
\* completed the rising diagonal (0,0)..(3,3)
C7_Witness ==
  /\ variant = "pytorch" /\ ProperUse /\ ProperStep
  /\ op.reward = 1
  /\ LastCell = <<3, 3>>
  /\ RunAt(dims, board, op.actor, 0, 0, <<1, 1>>)

(* ---------------- C8 ---------------- *)

C9_UndoInvertsStep ==
  (Stage1 /\ op.name = "undo" /\ op.after = "step" /\ op.legal /\ op.live)
    => Now = pre

\* an undo of a step that had ended the game with a win
C9_Witness ==
  /\ Stage1 /\ op.name = "undo" /\ op.after = "step" /\ op.legal /\ op.live
  /\ calls = 2
  /\ Len(moves) = 9
  /\ ~game_over /\ winner = NoWinner
  /\ Now = pre

(* ---------------- C10 ---------------- *)

\* C10 (as stated): in both Envs a step into a full column raises
\* IllegalMoveError and leaves board, _moves, game_over and winner unchanged.
C10_FullColumnRejected ==
  (op.name = "step" /\ ~op.legal) => (op.raised /\ Now = pre)

(* ---------------- C11 ---------------- *)

\* C11: in both Envs legal_mask()[c] is true exactly when the top row of column
\* c is empty and legal_actions() lists exactly those columns in ascending
\* order; while every step went into a legal column, no legal action is left
\* only if the board is full, and then game_over is true.
C11_LegalActions ==
  LET mask == legal_mask(dims, board)
      acts == legal_actions(dims, board)
  IN  /\ \A c \in 0..(Cols(dims) - 1) : mask[c] <=> (board[Rows(dims) - 1][c] = EMPTY)
      /\ \A k \in 1..Len(acts) : acts[k] \in 0..(Cols(dims) - 1) /\ mask[acts[k]]
      /\ \A c \in 0..(Cols(dims) - 1) : mask[c] => \E k \in 1..Len(acts) : acts[k] = c
      /\ \A k \in 1..(Len(acts) - 1) : acts[k] < acts[k + 1]
      /\ (allLegal /\ acts = <<>>) => (BoardFull(dims, board) /\ game_over)

\* a legal step has just filled the board: no legal action is left
C11_Witness ==
  /\ allLegal /\ op.name = "step"
  /\ legal_actions(dims, board) = <<>>
  /\ BoardFull(dims, board)
  /\ game_over

(* ---------------- C12 ---------------- *)

\* C12: for a board with cells in {0, 1, 2} and either actor, observe(actor)
\* and observe(opponent(actor)) are complementary: both 0 where the board is
\* empty, elsewhere 1 in one and 2 in the other, and observe(actor) is 1
\* exactly where the board cell equals actor.
C12_ObserveComplementary ==
  op.name = "observe" =>
    LET mine   == ret.grid
        theirs == state_to_observation(dims, board, opponent(op.actor)).o
    IN  \A r \in 0..(Rows(dims) - 1) : \A c \in 0..(Cols(dims) - 1) :
          /\ board[r][c] = EMPTY => (mine[r][c] = 0 /\ theirs[r][c] = 0)
          /\ board[r][c] # EMPTY => {mine[r][c], theirs[r][c]} = {1, 2}
          /\ (mine[r][c] = 1) <=> (board[r][c] = op.actor)

\* PLAYER2 observes a board that holds empty cells and pieces of both players
C12_Witness ==
  /\ op.name = "observe" /\ op.actor = PLAYER2
  /\ \E r \in 0..(Rows(dims) - 1) : \E c \in 0..(Cols(dims) - 1) :
       board[r][c] = PLAYER1 /\ ret.grid[r][c] = 2
  /\ \E r \in 0..(Rows(dims) - 1) : \E c \in 0..(Cols(dims) - 1) :
       board[r][c] = PLAYER2 /\ ret.grid[r][c] = 1
  /\ ~BoardFull(dims, board)

(* ---------------- C13 ---------------- *)

\* C13: observe(actor) leaves board, history and flags as they were, and the
\* grid it returns is a copy of its own: a write into any cell of it changes
\* neither the Env's board nor what a later observe or legal_mask returns.
C13_ObserveIsFreshCopy ==
  (op.name \in {"observe", "write"}) =>
    /\ Now = pre
    /\ ret.fresh
    /\ state_to_observation(dims, board, op.actor).o = ret.returned
    /\ legal_mask(dims, board) = legal_mask(dims, pre.board)

\* a caller has overwritten a cell of the observation with a different value
C13_Witness ==
  /\ op.name = "write" /\ op.after = "observe"
  /\ ret.grid # ret.returned
  /\ board # initial_state(dims)

(* ---------------- C14 ---------------- *)

\* C14: in both Envs an undo() called while the move history is empty changes
\* nothing (board, history and flags stay as they are) and raises no error.
C14_UndoOnEmptyIsNoOp ==
  [][(moves = <<>> /\ op'.name = "undo") =>
       (/\ board' = board
        /\ moves' = moves
        /\ game_over' = game_over
        /\ winner' = winner
        /\ ~op'.raised)]_vars

\* an undo has been called on a history that earlier undos had emptied, in the
\* pytorch Env with game_over still true
C14_Witness ==
  /\ variant = "pytorch"
  /\ op.name = "undo" /\ op.after = "undo"
  /\ moves = <<>> /\ board = initial_state(dims)
  /\ game_over

(* ---------------- C15 ---------------- *)

\* C15: in both Envs reset(), called in any reachable state, a finished game
\* included, leaves an all-EMPTY board, an empty history, game_over false and
\* no winner, and dims() is what it was.
C15_ResetRestoresStart ==
  op.name = "reset" =>
    /\ \A r \in 0..(Rows(dims) - 1) : \A c \in 0..(Cols(dims) - 1) : board[r][c] = EMPTY
    /\ moves = <<>>
    /\ ~game_over
    /\ winner = NoWinner
    /\ shape(board) = dims

\* reset has been called right after a step that ended the game
C15_Witness ==
  /\ op.name = "reset" /\ op.after = "step" /\ ~op.live
  /\ board = initial_state(dims) /\ moves = <<>> /\ ~game_over

(* ---------------- C16 ---------------- *)

\* C16: in the pytorch Env an undo() called with a non-empty history clears the
\* game-over flag: after a step that ended the game and an undo() of it,
\* game_over is false.
C16_PytorchUndoClearsGameOver ==
  (/\ variant = "pytorch"
   /\ op.name = "undo" /\ op.after = "step"
   /\ op.legal /\ op.live) => ~game_over

(* ---------------- C17 ---------------- *)

\* the board without the piece at the top of the move history
BoardBeforeLast == SetCell(dims, board, LastCell[1], LastCell[2], EMPTY)

\* no run of 4 equal pieces and at least one empty cell
NonTerminal(d, b) == ~BoardFull(d, b) /\ \A a \in Players : ~HasRun(d, b, a)

\* C17: while every step went into a legal column and was made with game_over
\* false, the board without the most recently placed piece has no run of 4
\* equal pieces and has an empty cell; so after an undo of the stage1 Env,
\* which resets the flag unconditionally, game_over is false on a board that
\* is not terminal.
C17_TerminalOnlyByLastMove ==
  ProperUse =>
    /\ moves # <<>> => NonTerminal(dims, BoardBeforeLast)
    /\ (Stage1 /\ op.name = "undo") => (~game_over /\ NonTerminal(dims, board))

\* the stage1 Env has undone a step that had completed a run of 4 and ended
\* the game
C17_Witness ==
  /\ Stage1 /\ ProperUse
  /\ op.name = "undo" /\ op.after = "step" /\ calls = 2
  /\ ~game_over /\ NonTerminal(dims, board)
  /\ \E col \in 0..(Cols(dims) - 1) : \E a \in Players :
       /\ legal_mask(dims, board)[col]
       /\ HasRun(dims, SetCell(dims, board, argmax_empty(dims, board, col), col, a), a)

(* ---------------- C18 ---------------- *)

\* C18: for a board with cells in {0, 1, 2} and an actor a, the kernel-based
\* is_winner(state, a) of the pytorch Env returns true exactly when a direct
\* scan finds 4 consecutive cells in a line (horizontal, vertical or either
\* diagonal), all inside the grid, that all equal a.
C18_IsWinnerIffDirectScan ==
  op.name = "is_winner" => (ret <=> HasRun(dims, board, op.actor))

\* is_winner returned true for a diagonal run that starts in column 1, on a
\* board where every other cell is the opponent's
C18_Witness ==
  /\ op.name = "is_winner" /\ ret = TRUE
  /\ RunAt(dims, board, op.actor, 0, 1, <<1, 1>>)
  /\ board[0][0] = opponent(op.actor)
  /\ ~RunAt(dims, board, op.actor, 0, 0, <<1, 1>>)

(* ---------------- C19 ---------------- *)

\* the lowest row of column col that is empty in b (for a column that has one)
LowestEmptyRow(d, b, col) ==
  CHOOSE r \in 0..(Rows(d) - 1) :
    b[r][col] = EMPTY /\ \A q \in 0..(Rows(d) - 1) : b[q][col] = EMPTY => r <= q

\* C19: in both Envs a step(col, actor) on a column whose legal_mask entry is
\* true changes exactly one cell of the board: the lowest empty row of col
\* becomes actor, every other cell keeps its value, and exactly that
\* (row, col) is appended to the move history.
C19_StepChangesOneCell ==
  (op.name = "step" /\ op.legal) =>
    LET row == LowestEmptyRow(dims, pre.board, op.col)
    IN  /\ board[row][op.col] = op.actor
        /\ pre.board[row][op.col] = EMPTY
        /\ \A r \in 0..(Rows(dims) - 1) : \A c \in 0..(Cols(dims) - 1) :
             <<r, c>> # <<row, op.col>> => board[r][c] = pre.board[r][c]
        /\ moves = Append(pre.moves, <<row, op.col>>)

\* PLAYER2 has stepped into a column that held two pieces, on a board where
\* another column was full
C19_Witness ==
  /\ op.name = "step" /\ op.legal /\ op.actor = PLAYER2
  /\ LastCell = <<2, op.col>>
  /\ pre.board[1][op.col] # EMPTY /\ pre.board[2][op.col] = EMPTY
  /\ \E c \in 0..(Cols(dims) - 1) : ~legal_mask(dims, pre.board)[c]

(* ---------------- C20 ---------------- *)

\* C20: in both Envs, while every step went into a column whose legal_mask
\* entry was true, no piece floats (a non-empty cell above row 0 has a
\* non-empty cell right below it) and the cell at the top of the move history
\* is the highest non-empty cell of its column.
C20_Gravity ==
  allLegal =>
    /\ \A r \in 1..(Rows(dims) - 1) : \A c \in 0..(Cols(dims) - 1) :
         board[r][c] # EMPTY => board[r - 1][c] # EMPTY
    /\ moves # <<>> =>
         /\ board[LastCell[1]][LastCell[2]] # EMPTY
         /\ \A r \in (LastCell[1] + 1)..(Rows(dims) - 1) : board[r][LastCell[2]] = EMPTY

\* two undos in a row have each removed the top piece of a column that holds
\* more than one piece
C20_Witness ==
  /\ allLegal
  /\ op.name = "undo" /\ op.after = "undo"
  /\ Len(moves) = 8
  /\ LastCell[1] >= 1
  /\ board[LastCell[1] - 1][LastCell[2]] # EMPTY

====
